---- MODULE Spec2Model ----
(***************************************************************************)
(* envgg: resolution of a process environment from a .env-style file whose *)
(* entries are literals, keyring lookups or keyring aliases, followed by   *)
(* the launch of a command with that environment.                          *)
(*                                                                         *)
(* Strings are sequences of one-character strings, so that trimming,       *)
(* searching and slicing are computed the way the Rust code computes them. *)
(* A Rust panic is the directive-like value Panic.                         *)
(*                                                                         *)
(* Two specifications:                                                     *)
(*   Spec       main(): process_env_file, then Command::status             *)
(*   SpecParse  parse_env_line applied to every line up to MaxLineLen      *)
(***************************************************************************)
EXTENDS Integers, Sequences, FiniteSets, TLC

VARIABLES
    pc,          \* position of main(): start, resolving, resolved, waiting, exited, panicked
    fileState,   \* the env file: "ok", "missing" (open fails) or "unreadable" (a line fails)
    rawLines,    \* the text lines of the env file
    keyring,     \* the keyring under service TAG: label -> outcome of get_password
    lines,       \* Vec<EnvLine> returned by read_env_file
    idx,         \* next element of stream::iter(lines) to be processed
    env_map,     \* the HashMap being collected
    stderr,      \* the lines written by eprintln!, in order
    getCalls,    \* labels passed to get_secret_from_keyring, in call order
    resolveResult, \* what process_env_file returned: "pending", "Ok" or "Err"
    env_vars,    \* Vec<(String, String)> returned by process_env_file
    child,       \* the spawned command: NoChild or [envs, code]
    exitStatus,  \* exit status of envgg itself, or Running
    line,        \* SpecParse: the input of parse_env_line
    parsed,      \* SpecParse: its result, or NotParsed
    name,        \* SpecValid: the input of is_valid_env_var_name
    valid,       \* SpecValid: "unchecked", "accepted" or "rejected"
    viewer,      \* the secrets viewer window: "closed" or "open"
    displayed,   \* SecretListDelegate.secrets: the labels the viewer lists
    dialog,      \* the open dialog: NoDialog, the add dialog or a delete confirmation
    tasks,       \* the detached tasks that have been spawned and not yet run
    notifications, \* the notifications pushed to the window, in order
    storeCalls,  \* set_password and delete_credential calls made, with their results
    events,      \* the user's actions on the viewer, in order
    stdout       \* what `envgg --list` printed last

validVars == <<name, valid>>

managerVars == <<viewer, displayed, dialog, tasks, notifications, storeCalls, events,
                 stdout>>

vars == <<pc, fileState, rawLines, keyring, lines, idx, env_map, stderr, getCalls,
          resolveResult, env_vars, child, exitStatus, line, parsed, validVars,
          managerVars>>

-----------------------------------------------------------------------------
(* Bounds *)

MaxLines == 3
MaxLineLen == 4
MaxExitCode == 2

-----------------------------------------------------------------------------
(* Strings *)

Chars == {" ", "#", "=", "$", "\"", "'", "K", "v"}

IsWhitespace(c) == c = " "

RECURSIVE trim_start(_)
trim_start(s) ==
    IF s = <<>> THEN s
    ELSE IF IsWhitespace(Head(s)) THEN trim_start(Tail(s)) ELSE s

RECURSIVE trim_end(_)
trim_end(s) ==
    IF s = <<>> THEN s
    ELSE IF IsWhitespace(s[Len(s)]) THEN trim_end(SubSeq(s, 1, Len(s) - 1)) ELSE s

trim(s) == trim_end(trim_start(s))

starts_with(s, c) == Len(s) > 0 /\ s[1] = c

ends_with(s, c) == Len(s) > 0 /\ s[Len(s)] = c

\* str::find: 1-based position of the first occurrence, 0 for None
find(s, c) ==
    IF \E i \in 1..Len(s) : s[i] = c
    THEN CHOOSE i \in 1..Len(s) : s[i] = c /\ \A j \in 1..(i - 1) : s[j] # c
    ELSE 0

-----------------------------------------------------------------------------
(* lib.rs: EnvLine and parse_env_line *)

Comment == [tag |-> "Comment"]
Alias(key, keyring_key) == [tag |-> "Alias", key |-> key, keyring_key |-> keyring_key]
Direct(key, value) == [tag |-> "Direct", key |-> key, value |-> value]
Lookup(key) == [tag |-> "Lookup", key |-> key]
Panic == [tag |-> "Panic"]

\* a mutant of AliasTarget: the quotes around an alias target are stripped too
AliasTargetStripsQuotes(value) ==
    LET t == trim(Tail(value)) IN
    IF Len(t) >= 2 /\ ((starts_with(t, "\"") /\ ends_with(t, "\""))
                       \/ (starts_with(t, "'") /\ ends_with(t, "'")))
    THEN SubSeq(t, 2, Len(t) - 1) ELSE t

\* value.strip_prefix('$') followed by val.trim()
AliasTarget(value) == trim(Tail(value))

\* the quote test of lines 40-41
IsQuoted(value) ==
    \/ (starts_with(value, "\"") /\ ends_with(value, "\""))
    \/ (starts_with(value, "'") /\ ends_with(value, "'"))

\* value[1..value.len() - 1]: the range 1..len-1 panics when 1 > len - 1
StripQuotes(value) ==
    IF IsQuoted(value)
    THEN IF 1 > Len(value) - 1 THEN Panic
         ELSE Direct(<<>>, SubSeq(value, 2, Len(value) - 1))
    ELSE Direct(<<>>, value)

\* a mutant of parse_env_line: the = is searched before the # is tested
parse_env_line_EqBeforeComment(l) ==
    LET trimmed == trim(l) IN
    IF trimmed = <<>> THEN Comment
    ELSE LET pos == find(trimmed, "=") IN
         IF pos # 0
         THEN LET key == trim(SubSeq(trimmed, 1, pos - 1))
                  value == trim(SubSeq(trimmed, pos + 1, Len(trimmed)))
              IN IF starts_with(value, "$")
                 THEN Alias(key, AliasTarget(value))
                 ELSE LET stripped == StripQuotes(value) IN
                      IF stripped = Panic THEN Panic
                      ELSE Direct(key, stripped.value)
         ELSE IF starts_with(trimmed, "#") THEN Comment ELSE Lookup(trimmed)

\* a mutant of parse_env_line: the key of a Lookup is the line as read
parse_env_line_LookupUntrimmed(l) ==
    LET trimmed == trim(l) IN
    IF trimmed = <<>> \/ starts_with(trimmed, "#") THEN Comment
    ELSE LET pos == find(trimmed, "=") IN
         IF pos # 0
         THEN LET key == trim(SubSeq(trimmed, 1, pos - 1))
                  value == trim(SubSeq(trimmed, pos + 1, Len(trimmed)))
              IN IF starts_with(value, "$")
                 THEN Alias(key, AliasTarget(value))
                 ELSE LET stripped == StripQuotes(value) IN
                      IF stripped = Panic THEN Panic
                      ELSE Direct(key, stripped.value)
         ELSE Lookup(l)

\* a mutant of parse_env_line: the test for an empty line is missing
parse_env_line_NoEmptyCheck(l) ==
    LET trimmed == trim(l) IN
    IF starts_with(trimmed, "#") THEN Comment
    ELSE LET pos == find(trimmed, "=") IN
         IF pos # 0
         THEN LET key == trim(SubSeq(trimmed, 1, pos - 1))
                  value == trim(SubSeq(trimmed, pos + 1, Len(trimmed)))
              IN IF starts_with(value, "$")
                 THEN Alias(key, AliasTarget(value))
                 ELSE LET stripped == StripQuotes(value) IN
                      IF stripped = Panic THEN Panic
                      ELSE Direct(key, stripped.value)
         ELSE Lookup(trimmed)

parse_env_line(l) ==
    LET trimmed == trim(l) IN
    IF trimmed = <<>> \/ starts_with(trimmed, "#") THEN Comment
    ELSE LET pos == find(trimmed, "=") IN
         IF pos # 0
         THEN LET key == trim(SubSeq(trimmed, 1, pos - 1))
                  value == trim(SubSeq(trimmed, pos + 1, Len(trimmed)))
              IN IF starts_with(value, "$")
                 THEN Alias(key, AliasTarget(value))
                 ELSE LET stripped == StripQuotes(value) IN
                      IF stripped = Panic THEN Panic
                      ELSE Direct(key, stripped.value)
         ELSE Lookup(trimmed)

-----------------------------------------------------------------------------
(* The env file and the keyring *)

\* the lines an env file is made of
FileLines ==
    { <<"#", "c">>,            \* #c
      <<"A", "=", "1">>,       \* A=1
      <<"A", "=", "$", "S">>,  \* A=$S
      <<"A">>,                 \* A
      <<"B", "=", "$", "S">>,  \* B=$S
      <<"S">>,                 \* S
      <<"A", "=", "\"">> }     \* A="

Files == UNION { [1..n -> FileLines] : n \in 0..MaxLines }

Labels == { <<"A">>, <<"S">> }

Secrets == { <<"x">>, <<"y">> }

Ok(v) == [ok |-> TRUE, value |-> v]
Err(e) == [ok |-> FALSE, err |-> e]

\* keyring_core::Error as seen by get_password: no such entry, or the store failed
StoreErrors == { "NoEntry", "PlatformFailure" }

Outcomes == { Ok(v) : v \in Secrets } \cup { Err(e) : e \in StoreErrors }

\* lib.rs: get_secret_from_keyring
get_secret_from_keyring(target) ==
    IF target \in DOMAIN keyring THEN keyring[target] ELSE Err("NoEntry")

-----------------------------------------------------------------------------
(* HashMap and Vec helpers *)

EmptyMap == <<>>

\* a mutant of HashMapInsert: the first value of a key is kept (entry().or_insert)
HashMapInsertKeepsFirst(m, k, v) ==
    [x \in DOMAIN m \cup {k} |-> IF x \in DOMAIN m THEN m[x] ELSE v]

\* HashMap::insert, as used by collect: a later pair replaces the value of an equal key
HashMapInsert(m, k, v) ==
    [x \in DOMAIN m \cup {k} |-> IF x = k THEN v ELSE m[x]]

\* HashMap::into_iter().collect::<Vec<_>>(): every entry once, in any order
IntoIterOrders(m) ==
    { s \in [1..Cardinality(DOMAIN m) -> { <<k, m[k]>> : k \in DOMAIN m }] :
        \A i, j \in DOMAIN s : i # j => s[i] # s[j] }

\* Command::envs: the pairs are set one after the other
RECURSIVE Envs(_)
Envs(pairs) ==
    IF pairs = <<>> THEN EmptyMap
    ELSE LET init == Envs(SubSeq(pairs, 1, Len(pairs) - 1))
             last == pairs[Len(pairs)]
         IN [x \in DOMAIN init \cup {last[1]} |->
               IF x = last[1] THEN last[2] ELSE init[x]]

-----------------------------------------------------------------------------
(* Values that stand for "nothing yet" *)

NoChild == [spawned |-> FALSE]
Running == -1
NotParsed == [tag |-> "NotParsed"]

PipelineIdle ==
    /\ pc = "idle"
    /\ fileState = "ok"
    /\ rawLines = <<>>
    /\ keyring = [l \in Labels |-> Err("NoEntry")]
    /\ lines = <<>>
    /\ idx = 1
    /\ env_map = EmptyMap
    /\ stderr = <<>>
    /\ getCalls = <<>>
    /\ resolveResult = "pending"
    /\ env_vars = <<>>
    /\ child = NoChild
    /\ exitStatus = Running

ParseIdle ==
    /\ line = <<>>
    /\ parsed = NotParsed

NoDialog == [kind |-> "none"]

ValidIdle ==
    /\ name = <<>>
    /\ valid = "unchecked"

ManagerIdle ==
    /\ viewer = "closed"
    /\ displayed = <<>>
    /\ dialog = NoDialog
    /\ tasks = <<>>
    /\ notifications = <<>>
    /\ storeCalls = <<>>
    /\ events = <<>>
    /\ stdout = <<>>

-----------------------------------------------------------------------------
(* lib.rs: read_env_file *)

\* a mutant of read_env_file: lines that cannot be read are skipped
\* (reader.lines().map_while(Result::ok)) and a file that cannot be opened is empty
read_env_file_lossy ==
    LET text == IF fileState = "ok" THEN rawLines
                ELSE IF fileState = "unreadable"
                     THEN SubSeq(rawLines, 1, Len(rawLines) - 1)
                     ELSE <<>>
        parsedLines == [i \in 1..Len(text) |-> parse_env_line(text[i])]
    IN IF \E i \in 1..Len(text) : parsedLines[i] = Panic
       THEN [result |-> "panic"]
       ELSE [result |-> "Ok", lines |-> parsedLines]

\* File::open(path)?, then reader.lines().collect::<Result<_, _>>()?, then
\* parse_env_line on every line
read_env_file ==
    IF fileState = "missing" THEN [result |-> "Err", what |-> "open"]
    ELSE IF fileState = "unreadable" THEN [result |-> "Err", what |-> "read"]
    ELSE LET parsedLines == [i \in 1..Len(rawLines) |-> parse_env_line(rawLines[i])]
         IN IF \E i \in 1..Len(rawLines) : parsedLines[i] = Panic
            THEN [result |-> "panic"]
            ELSE [result |-> "Ok", lines |-> parsedLines]

-----------------------------------------------------------------------------
(* main.rs: the closure of filter_map in process_env_file *)

None == [some |-> FALSE]
Some(k, v) == [some |-> TRUE, key |-> k, value |-> v]

\* a mutant of FilterMap: a failed lookup is dropped without a warning
FilterMapSilent(directive) ==
    CASE directive.tag = "Comment" -> [item |-> None, get |-> <<>>, out |-> <<>>]
      [] directive.tag = "Direct" ->
            [item |-> Some(directive.key, directive.value), get |-> <<>>, out |-> <<>>]
      [] directive.tag = "Alias" ->
            LET got == get_secret_from_keyring(directive.keyring_key) IN
            [item |-> IF got.ok THEN Some(directive.key, got.value) ELSE None,
             get |-> <<directive.keyring_key>>, out |-> <<>>]
      [] directive.tag = "Lookup" ->
            LET got == get_secret_from_keyring(directive.key) IN
            [item |-> IF got.ok THEN Some(directive.key, got.value) ELSE None,
             get |-> <<directive.key>>, out |-> <<>>]

\* a mutant of FilterMap: a failed lookup exports the variable with an empty value
FilterMapEmptyOnErr(directive) ==
    CASE directive.tag = "Comment" -> [item |-> None, get |-> <<>>, out |-> <<>>]
      [] directive.tag = "Direct" ->
            [item |-> Some(directive.key, directive.value), get |-> <<>>, out |-> <<>>]
      [] directive.tag = "Alias" ->
            LET got == get_secret_from_keyring(directive.keyring_key) IN
            [item |-> Some(directive.key, IF got.ok THEN got.value ELSE <<>>),
             get |-> <<directive.keyring_key>>,
             out |-> IF got.ok THEN <<>>
                     ELSE << [kind |-> "Warning", name |-> directive.keyring_key,
                              err |-> got.err],
                             [kind |-> "Skipping", key |-> directive.key] >>]
      [] directive.tag = "Lookup" ->
            LET got == get_secret_from_keyring(directive.key) IN
            [item |-> Some(directive.key, IF got.ok THEN got.value ELSE <<>>),
             get |-> <<directive.key>>,
             out |-> IF got.ok THEN <<>>
                     ELSE << [kind |-> "Warning", name |-> directive.key, err |-> got.err],
                             [kind |-> "SkippingThis"] >>]

\* a mutant of FilterMap: an alias is looked up under its exported key
FilterMapAliasByKey(directive) ==
    CASE directive.tag = "Comment" -> [item |-> None, get |-> <<>>, out |-> <<>>]
      [] directive.tag = "Direct" ->
            [item |-> Some(directive.key, directive.value), get |-> <<>>, out |-> <<>>]
      [] directive.tag \in {"Alias", "Lookup"} ->
            LET got == get_secret_from_keyring(directive.key) IN
            [item |-> IF got.ok THEN Some(directive.key, got.value) ELSE None,
             get |-> <<directive.key>>,
             out |-> IF got.ok THEN <<>>
                     ELSE << [kind |-> "Warning", name |-> directive.key, err |-> got.err],
                             [kind |-> "SkippingThis"] >>]

\* what the closure does with one EnvLine: the item it yields, the labels it asks
\* the keyring for, and the lines it writes with eprintln!
FilterMap(directive) ==
    CASE directive.tag = "Comment" -> [item |-> None, get |-> <<>>, out |-> <<>>]
      [] directive.tag = "Direct" ->
            [item |-> Some(directive.key, directive.value), get |-> <<>>, out |-> <<>>]
      [] directive.tag = "Alias" ->
            LET got == get_secret_from_keyring(directive.keyring_key) IN
            [item |-> IF got.ok THEN Some(directive.key, got.value) ELSE None,
             get |-> <<directive.keyring_key>>,
             out |-> IF got.ok THEN <<>>
                     ELSE << [kind |-> "Warning", name |-> directive.keyring_key,
                              err |-> got.err],
                             [kind |-> "Skipping", key |-> directive.key] >>]
      [] directive.tag = "Lookup" ->
            LET got == get_secret_from_keyring(directive.key) IN
            [item |-> IF got.ok THEN Some(directive.key, got.value) ELSE None,
             get |-> <<directive.key>>,
             out |-> IF got.ok THEN <<>>
                     ELSE << [kind |-> "Warning", name |-> directive.key, err |-> got.err],
                             [kind |-> "SkippingThis"] >>]

-----------------------------------------------------------------------------
(* main.rs: main from line 158 on, and process_env_file *)

Init ==
    /\ pc = "start"
    /\ fileState \in {"ok", "missing", "unreadable"}
    /\ rawLines \in Files
    /\ keyring \in [Labels -> Outcomes]
    /\ lines = <<>>
    /\ idx = 1
    /\ env_map = EmptyMap
    /\ stderr = <<>>
    /\ getCalls = <<>>
    /\ resolveResult = "pending"
    /\ env_vars = <<>>
    /\ child = NoChild
    /\ exitStatus = Running
    /\ ParseIdle
    /\ ValidIdle
    /\ ManagerIdle

\* read_env_file returns Ok(lines); the stream over them starts
ReadEnvFileOk ==
    /\ pc = "start"
    /\ read_env_file.result = "Ok"
    /\ lines' = read_env_file.lines
    /\ pc' = "resolving"
    /\ UNCHANGED <<fileState, rawLines, keyring, idx, env_map, stderr, getCalls,
                   resolveResult, env_vars, child, exitStatus, line, parsed,
                   validVars, managerVars>>

\* parse_env_line panics inside read_env_file: the process ends with status 101
ReadEnvFilePanics ==
    /\ pc = "start"
    /\ read_env_file.result = "panic"
    /\ pc' = "panicked"
    /\ exitStatus' = 101
    /\ UNCHANGED <<fileState, rawLines, keyring, lines, idx, env_map, stderr,
                   getCalls, resolveResult, env_vars, child, line, parsed,
                   validVars, managerVars>>

\* File::open fails, or reader.lines() yields an Err: `?` returns it from
\* read_env_file, from process_env_file and from main, whose Err ends the
\* process with status 1
ReadEnvFileErr ==
    /\ pc = "start"
    /\ read_env_file.result = "Err"
    /\ resolveResult' = "Err"
    /\ stderr' = Append(stderr, [kind |-> "Error", what |-> read_env_file.what])
    /\ pc' = "exited"
    /\ exitStatus' = 1
    /\ UNCHANGED <<fileState, rawLines, keyring, lines, idx, env_map, getCalls,
                   env_vars, child, line, parsed,
                   validVars, managerVars>>

\* the stream is at an EnvLine of the given variant
AtDirective(tag) ==
    /\ pc = "resolving"
    /\ idx <= Len(lines)
    /\ lines[idx].tag = tag

\* one element of the stream goes through the closure; collect inserts its item
FilterMapAndCollect ==
    /\ LET r == FilterMap(lines[idx]) IN
         /\ env_map' = IF r.item.some
                       THEN HashMapInsert(env_map, r.item.key, r.item.value)
                       ELSE env_map
         /\ getCalls' = getCalls \o r.get
         /\ stderr' = stderr \o r.out
    /\ idx' = idx + 1
    /\ UNCHANGED <<pc, fileState, rawLines, keyring, lines, resolveResult, env_vars,
                   child, exitStatus, line, parsed,
                   validVars, managerVars>>

\* EnvLine::Comment => None
ResolveComment ==
    /\ AtDirective("Comment")
    /\ FilterMapAndCollect

\* EnvLine::Direct { key, value } => Some((key, value))
ResolveDirect ==
    /\ AtDirective("Direct")
    /\ FilterMapAndCollect

\* EnvLine::Alias { key, keyring_key } => get_secret_from_keyring(&keyring_key)
ResolveAlias ==
    /\ AtDirective("Alias")
    /\ FilterMapAndCollect

\* EnvLine::Lookup { key } => get_secret_from_keyring(&key)
ResolveLookup ==
    /\ AtDirective("Lookup")
    /\ FilterMapAndCollect

\* the stream is exhausted: Ok(env_map.into_iter().collect())
Collect ==
    /\ pc = "resolving"
    /\ idx > Len(lines)
    /\ env_vars' \in IntoIterOrders(env_map)
    /\ resolveResult' = "Ok"
    /\ pc' = "resolved"
    /\ UNCHANGED <<fileState, rawLines, keyring, lines, idx, env_map, stderr,
                   getCalls, child, exitStatus, line, parsed,
                   validVars, managerVars>>

\* Command::new(..).envs(env_vars).status() launches the command
Spawn ==
    /\ pc = "resolved"
    /\ child' = [spawned |-> TRUE, envs |-> Envs(env_vars), code |-> Running]
    /\ pc' = "waiting"
    /\ UNCHANGED <<fileState, rawLines, keyring, lines, idx, env_map, stderr,
                   getCalls, resolveResult, env_vars, exitStatus, line, parsed,
                   validVars, managerVars>>

\* status() returns Err (the command cannot be launched): `?` returns it from main
SpawnFails ==
    /\ pc = "resolved"
    /\ stderr' = Append(stderr, [kind |-> "Error", what |-> "spawn"])
    /\ pc' = "exited"
    /\ exitStatus' = 1
    /\ UNCHANGED <<fileState, rawLines, keyring, lines, idx, env_map, getCalls,
                   resolveResult, env_vars, child, line, parsed,
                   validVars, managerVars>>

\* status() returns Ok(ExitStatus); the value is dropped and main returns Ok(())
ChildExits ==
    /\ pc = "waiting"
    /\ \E code \in 0..MaxExitCode : child' = [child EXCEPT !.code = code]
    /\ pc' = "exited"
    /\ exitStatus' = 0
    /\ UNCHANGED <<fileState, rawLines, keyring, lines, idx, env_map, stderr,
                   getCalls, resolveResult, env_vars, line, parsed,
                   validVars, managerVars>>

Next ==
    \/ ReadEnvFileOk
    \/ ReadEnvFilePanics
    \/ ReadEnvFileErr
    \/ ResolveComment
    \/ ResolveDirect
    \/ ResolveAlias
    \/ ResolveLookup
    \/ Collect
    \/ Spawn
    \/ SpawnFails
    \/ ChildExits

Spec == Init /\ [][Next]_vars

-----------------------------------------------------------------------------
(* SpecParse: parse_env_line on every line of at most MaxLineLen characters *)
(* and on the longer lines the documentation gives as examples              *)

AllLines == UNION { [1..n -> Chars] : n \in 0..MaxLineLen }

ExampleLines ==
    { <<"K", "=", "\"", "v", "=", "v", "\"">>,   \* K="v=v"
      <<"K", "=", "'", "v", "v", "'">>,          \* K='vv'
      <<"K", "=", "\"", "v", "v", "'">>,         \* K="vv'
      <<" ", "K", " ", "=", " ", "$", " ", "v", " ">> }   \* " K = $ v "

InitParse ==
    /\ PipelineIdle
    /\ line \in AllLines \cup ExampleLines
    /\ parsed = NotParsed
    /\ ValidIdle
    /\ ManagerIdle

Classify ==
    /\ parsed = NotParsed
    /\ parsed' = parse_env_line(line)
    /\ UNCHANGED <<line, pc, fileState, rawLines, keyring, lines, idx, env_map,
                   stderr, getCalls, resolveResult, env_vars, child, exitStatus,
                   validVars, managerVars>>

NextParse == Classify

SpecParse == InitParse /\ [][NextParse]_vars

-----------------------------------------------------------------------------
(* Properties of resolution, checked under Spec.  They are stated over the *)
(* directives read from the file and the content of the keyring, not over  *)
(* the steps that computed the result.                                     *)

NeedsStore(d) == d.tag \in {"Alias", "Lookup"}

\* the keyring name a directive is looked up under
StoreName(d) == IF d.tag = "Alias" THEN d.keyring_key ELSE d.key

StoreHas(label) == label \in DOMAIN keyring /\ keyring[label].ok

Survives(d) == d.tag = "Direct" \/ (NeedsStore(d) /\ StoreHas(StoreName(d)))

Failed(d) == NeedsStore(d) /\ ~StoreHas(StoreName(d))

\* the value a surviving directive contributes
Contributed(d) == IF d.tag = "Direct" THEN d.value ELSE keyring[StoreName(d)].value

\* the line indexes of the surviving directives for key
Survivors(key) == { i \in 1..Len(lines) : Survives(lines[i]) /\ lines[i].key = key }

Greatest(indexes) == CHOOSE i \in indexes : \A j \in indexes : j <= i

DirectiveKeys == { lines[i].key : i \in { j \in 1..Len(lines) : lines[j].tag # "Comment" } }

\* the positions of key in the resolved environment
Occurrences(key) == { j \in 1..Len(env_vars) : env_vars[j][1] = key }

ResolvedKeys == { env_vars[j][1] : j \in 1..Len(env_vars) }

\* C1: when resolution has returned, every key contributed by more than one
\* surviving directive appears exactly once in the resolved environment, with
\* the value of the surviving directive of greatest line index; the store
\* lookups complete in the one order the stream allows, and the spawned
\* command receives the same value.
C1_LastDirectiveWins ==
    resolveResult = "Ok" =>
        \A key \in DirectiveKeys :
            Cardinality(Survivors(key)) > 1 =>
                LET last == lines[Greatest(Survivors(key))] IN
                /\ Cardinality(Occurrences(key)) = 1
                /\ \A j \in Occurrences(key) : env_vars[j][2] = Contributed(last)
                /\ child.spawned => /\ key \in DOMAIN child.envs
                                    /\ child.envs[key] = Contributed(last)

\* two store lookups for the same key succeeded with different values and the
\* later line's value is the one resolved
C1_Witness ==
    /\ resolveResult = "Ok"
    /\ \E i, j \in 1..Len(lines) :
         /\ i < j
         /\ NeedsStore(lines[i]) /\ NeedsStore(lines[j])
         /\ Survives(lines[i]) /\ Survives(lines[j])
         /\ lines[i].key = lines[j].key
         /\ Survivors(lines[i].key) = {i, j}
         /\ Contributed(lines[i]) # Contributed(lines[j])
         /\ <<lines[j].key, Contributed(lines[j])>> \in { env_vars[n] : n \in 1..Len(env_vars) }

\* the failed directives among the first n
FailedUpTo(n) == { i \in 1..n : Failed(lines[i]) }

WarningPositions == { p \in 1..Len(stderr) : stderr[p].kind = "Warning" }

\* the position in stderr of the r-th warning
NthWarning(r) ==
    CHOOSE p \in WarningPositions :
        Cardinality({ q \in WarningPositions : q <= p }) = r

\* C2: a failed store get never makes resolution fail; there is exactly one
\* warning per failed directive processed so far, in file order, naming the
\* keyring name attempted and identifying the exported key; and when
\* resolution has returned, every surviving directive's key is resolved, with
\* its own value when it is the last survivor for that key.
C2_PartialFailure ==
    LET failed == FailedUpTo(idx - 1) IN
    /\ Cardinality(WarningPositions) = Cardinality(failed)
    /\ failed # {} =>
        /\ resolveResult # "Err"
        /\ pc # "panicked"
        /\ \A i \in failed :
             LET p == NthWarning(Cardinality({ f \in failed : f <= i })) IN
             /\ stderr[p].name = StoreName(lines[i])
             /\ lines[i].tag = "Alias" =>
                    /\ p < Len(stderr)
                    /\ stderr[p + 1] = [kind |-> "Skipping", key |-> lines[i].key]
             /\ lines[i].tag = "Lookup" => stderr[p].name = lines[i].key
        /\ resolveResult = "Ok" =>
             \A i \in 1..Len(lines) :
                 Survives(lines[i]) =>
                     /\ lines[i].key \in ResolvedKeys
                     /\ i = Greatest(Survivors(lines[i].key)) =>
                            \E j \in 1..Len(env_vars) :
                                env_vars[j] = <<lines[i].key, Contributed(lines[i])>>

\* an alias whose label is not in the keyring and a direct entry: the command
\* is spawned with the direct entry alone, after one warning
C2_Witness ==
    /\ child.spawned
    /\ \E i, j \in 1..Len(lines) :
         /\ lines[i].tag = "Alias" /\ Failed(lines[i])
         /\ keyring[StoreName(lines[i])] = Err("NoEntry")
         /\ lines[j].tag = "Direct"
         /\ lines[i].key # lines[j].key
         /\ env_vars = << <<lines[j].key, lines[j].value>> >>
    /\ Cardinality(WarningPositions) = 1

\* C3 as stated: when the store get of a directive with exported key K
\* failed, the resolved environment has no entry for K.
C3_FailedKeyAbsent ==
    resolveResult = "Ok" =>
        \A i \in 1..Len(lines) :
            Failed(lines[i]) => lines[i].key \notin ResolvedKeys

\* C3 as amended: a directive whose store get failed contributes nothing: its
\* key K is resolved only if another directive for K survives, and then to a
\* surviving directive's value; with no survivor for K neither the resolved
\* environment nor the environment of the spawned command has an entry for K.
C3_FailedDirectiveContributesNothing ==
    resolveResult = "Ok" =>
        \A i \in 1..Len(lines) :
            Failed(lines[i]) =>
                LET key == lines[i].key IN
                /\ Survivors(key) = {} =>
                       /\ key \notin ResolvedKeys
                       /\ child.spawned => key \notin DOMAIN child.envs
                /\ \A j \in Occurrences(key) :
                       env_vars[j][2] \in { Contributed(lines[s]) : s \in Survivors(key) }

\* a lookup failed, nothing else exports its key, and the command runs without it
C3_Witness ==
    /\ child.spawned
    /\ \E i \in 1..Len(lines) :
         /\ Failed(lines[i])
         /\ Survivors(lines[i].key) = {}
         /\ lines[i].key \notin DOMAIN child.envs
         /\ child.envs # EmptyMap

\* C4: when the env file cannot be opened or one of its lines cannot be read,
\* process_env_file returns Err and nothing else happens: no directive is
\* processed, the keyring is never asked, no environment is built and no
\* command is spawned.
C4_UnreadableFileIsFatal ==
    fileState # "ok" =>
        /\ pc \in {"start", "exited"}
        /\ pc = "exited" => resolveResult = "Err" /\ exitStatus # 0
        /\ resolveResult # "Ok"
        /\ lines = <<>>
        /\ getCalls = <<>>
        /\ env_map = EmptyMap
        /\ env_vars = <<>>
        /\ child = NoChild

\* a file with a line that cannot be read, whose other lines hold a direct
\* entry and a lookup: the program has exited without resolving anything
C4_Witness ==
    /\ fileState = "unreadable"
    /\ pc = "exited"
    /\ resolveResult = "Err"
    /\ \E i, j \in 1..Len(rawLines) :
         /\ parse_env_line(rawLines[i]).tag = "Direct"
         /\ parse_env_line(rawLines[j]).tag = "Lookup"

\* C5: when the program has exited after spawning the command, its exit
\* status is the child's exit code; when the command could not be launched
\* its exit status is not zero.
C5_ExitStatusIsChildExitCode ==
    pc = "exited" /\ resolveResult = "Ok" =>
        IF child.spawned THEN exitStatus = child.code ELSE exitStatus # 0

\* the map a file resolves to: the directives in file order, each surviving
\* one replacing the value of its key
RECURSIVE ReferenceEnv(_)
ReferenceEnv(n) ==
    IF n = 0 THEN EmptyMap
    ELSE LET before == ReferenceEnv(n - 1)
             d == lines[n]
         IN IF Survives(d)
            THEN [k \in DOMAIN before \cup {d.key} |->
                    IF k = d.key THEN Contributed(d) ELSE before[k]]
            ELSE before

\* the keyring names asked for: one per Alias or Lookup, in file order
RECURSIVE ReferenceGets(_)
ReferenceGets(n) ==
    IF n = 0 THEN <<>>
    ELSE IF NeedsStore(lines[n])
         THEN Append(ReferenceGets(n - 1), StoreName(lines[n]))
         ELSE ReferenceGets(n - 1)

\* C7: when resolution has returned, the resolved environment is exactly the
\* reference map of the file's directives (Comment: nothing; Direct: its
\* value; Alias: the keyring's value under keyringKey; Lookup: the keyring's
\* value under key), the keyring was asked for exactly those names, and the
\* spawned command receives that map; a file of comments only resolves to the
\* empty environment and not to an error.
C7_ResolvedIsReference ==
    /\ resolveResult = "Ok" =>
         LET ref == ReferenceEnv(Len(lines)) IN
         /\ Len(env_vars) = Cardinality(DOMAIN ref)
         /\ ResolvedKeys = DOMAIN ref
         /\ \A j \in 1..Len(env_vars) : env_vars[j][2] = ref[env_vars[j][1]]
         /\ getCalls = ReferenceGets(Len(lines))
         /\ child.spawned => child.envs = ref
    /\ (/\ fileState = "ok"
        /\ \A i \in 1..Len(rawLines) : starts_with(rawLines[i], "#")) =>
         /\ resolveResult # "Err"
         /\ pc # "panicked"
         /\ resolveResult = "Ok" => env_vars = <<>>

\* a direct entry, an alias and a lookup with three different keys, both
\* lookups answered by the keyring: the command runs with the three variables
C7_Witness ==
    /\ child.spawned
    /\ Len(lines) = 3
    /\ lines[1].tag = "Direct" /\ lines[2].tag = "Alias" /\ lines[3].tag = "Lookup"
    /\ lines[2].key # lines[2].keyring_key
    /\ Survives(lines[2]) /\ Survives(lines[3])
    /\ Cardinality({lines[1].key, lines[2].key, lines[3].key}) = 3
    /\ child.envs = [k \in {lines[1].key, lines[2].key, lines[3].key} |->
                        IF k = lines[1].key THEN lines[1].value
                        ELSE IF k = lines[2].key
                             THEN keyring[lines[2].keyring_key].value
                             ELSE keyring[lines[3].key].value]

-----------------------------------------------------------------------------
(* Properties of parse_env_line, checked under SpecParse.  The text of a   *)
(* line is described here by positions in the raw line, independently of   *)
(* the trimming and searching of the model.                                *)

Blank(s) == \A i \in 1..Len(s) : s[i] = " "

\* s without its leading and trailing spaces
TrimmedText(s) ==
    IF Blank(s) THEN <<>>
    ELSE LET nonSpace == { i \in 1..Len(s) : s[i] # " " }
             first == CHOOSE i \in nonSpace : \A j \in nonSpace : i <= j
             last == CHOOSE i \in nonSpace : \A j \in nonSpace : j <= i
         IN SubSeq(s, first, last)

IsCommentLine(s) == Blank(s) \/ TrimmedText(s)[1] = "#"

EqPositions(s) == { i \in 1..Len(s) : s[i] = "=" }

HasEq(s) == EqPositions(s) # {}

FirstEq(s) == CHOOSE p \in EqPositions(s) : \A q \in EqPositions(s) : p <= q

LeftOfEq(s) == TrimmedText(SubSeq(s, 1, FirstEq(s) - 1))

RightOfEq(s) == TrimmedText(SubSeq(s, FirstEq(s) + 1, Len(s)))

IsDollar(s) == Len(s) > 0 /\ s[1] = "$"

\* wrapped in one matching pair of quotes
Wrapped(s) == Len(s) >= 2 /\ s[1] = s[Len(s)] /\ s[1] \in {"\"", "'"}

\* C6: parse_env_line returns one of the four directive variants for every
\* input line; it never panics.
C6_ClassifyIsTotal ==
    parsed # NotParsed => parsed.tag \in {"Comment", "Alias", "Direct", "Lookup"}

\* C8: for a line classified from KEY=rawValue where rawValue does not start
\* with $, the result is Direct whose value is rawValue without its first and
\* last character exactly when rawValue has at least two characters and
\* starts and ends with the same quote character, and rawValue verbatim in
\* every other case, a lone quote character included.
C8_QuoteStripping ==
    (/\ parsed # NotParsed
     /\ ~IsCommentLine(line)
     /\ HasEq(line)
     /\ ~IsDollar(RightOfEq(line))) =>
        LET raw == RightOfEq(line) IN
        /\ parsed.tag = "Direct"
        /\ parsed.value = IF Wrapped(raw) THEN SubSeq(raw, 2, Len(raw) - 1) ELSE raw

\* C9: for every non-comment line containing =, the result carries as key the
\* trimmed text left of the first =, and its value (or keyring key) keeps
\* every = that follows the first one.
C9_SplitAtFirstEq ==
    (/\ parsed # NotParsed
     /\ ~IsCommentLine(line)
     /\ HasEq(line)) =>
        /\ parsed.tag \in {"Alias", "Direct"}
        /\ parsed.key = LeftOfEq(line)
        /\ LET payload == IF parsed.tag = "Alias" THEN parsed.keyring_key
                          ELSE parsed.value
           IN Cardinality(EqPositions(payload)) = Cardinality(EqPositions(line)) - 1

\* the same property for the lines on which parse_env_line returns: C9 fails
\* on no other line than those on which it panics
SplitAtFirstEqWhenReturned ==
    (/\ parsed # NotParsed
     /\ parsed # Panic
     /\ ~IsCommentLine(line)
     /\ HasEq(line)) =>
        /\ parsed.tag \in {"Alias", "Direct"}
        /\ parsed.key = LeftOfEq(line)
        /\ LET payload == IF parsed.tag = "Alias" THEN parsed.keyring_key
                          ELSE parsed.value
           IN Cardinality(EqPositions(payload)) = Cardinality(EqPositions(line)) - 1

\* C10: every non-comment line whose trimmed text right of the first = starts
\* with $ is classified Alias, with the trimmed text left of the = as key and,
\* as keyring key, the text after that one $, trimmed and otherwise unchanged
\* (quotes are kept; an empty remainder stays empty).
C10_AliasClassification ==
    (/\ parsed # NotParsed
     /\ ~IsCommentLine(line)
     /\ HasEq(line)
     /\ IsDollar(RightOfEq(line))) =>
        parsed = Alias(LeftOfEq(line), TrimmedText(Tail(RightOfEq(line))))

\* K=$ has been classified: an alias with an empty keyring key
C10_Witness ==
    /\ line = <<"K", "=", "$">>
    /\ parsed = Alias(<<"K">>, <<>>)

\* C11: every line that is empty after trimming, or whose first character
\* after trimming is #, is classified Comment whatever follows; a Comment
\* carries no key and no keyring name.
C11_CommentFirst ==
    (parsed # NotParsed /\ IsCommentLine(line)) => parsed = Comment

\* #K=v has been classified: a Comment, although it holds a =
C11_Witness ==
    /\ line = <<"#", "K", "=", "v">>
    /\ parsed = Comment

\* C12 as stated: every line without = that is not empty after trimming is
\* classified Lookup with the trimmed line as key.
C12_LookupWithoutEq ==
    (parsed # NotParsed /\ ~HasEq(line) /\ ~Blank(line)) =>
        parsed = Lookup(TrimmedText(line))

\* C12 as amended: every line without = that is not empty after trimming and
\* does not start with # after trimming is classified Lookup with the trimmed
\* line as key.
C12_LookupWithoutEqNorHash ==
    (parsed # NotParsed /\ ~HasEq(line) /\ ~IsCommentLine(line)) =>
        parsed = Lookup(TrimmedText(line))

\* " K v" has been classified: a Lookup of the trimmed line
C12_Witness ==
    /\ line = <<" ", "K", " ", "v">>
    /\ parsed = Lookup(<<"K", " ", "v">>)

\* C17 as stated: every directive other than Comment carries a non-empty key.
C17_KeyNonEmpty ==
    parsed.tag \in {"Alias", "Direct", "Lookup"} => parsed.key # <<>>

\* C17 as amended: a Lookup always carries a non-empty key; an Alias or a
\* Direct carries the trimmed text left of the first =, which is empty
\* exactly when the line starts with = after trimming.
C17_KeyEmptyOnlyBeforeEq ==
    /\ parsed.tag = "Lookup" => parsed.key # <<>>
    /\ parsed.tag \in {"Alias", "Direct"} =>
         /\ parsed.key = LeftOfEq(line)
         /\ parsed.key = <<>> <=> TrimmedText(line)[1] = "="

\* =$v and =v have been classified: an Alias and a Direct with an empty key
C17_Witness ==
    \/ line = <<"=", "$", "v">> /\ parsed = Alias(<<>>, <<"v">>)
    \/ line = <<"=", "v">> /\ parsed = Direct(<<>>, <<"v">>)

-----------------------------------------------------------------------------
(* ui.rs: SecretsViewer::is_valid_env_var_name, and SpecValid, which applies *)
(* it to every name of at most MaxNameLen characters and to longer examples  *)

MaxNameLen == 3

is_ascii_uppercase(c) ==
    c \in {"A", "B", "C", "D", "E", "F", "G", "H", "I", "J", "K", "L", "M",
           "N", "O", "P", "Q", "R", "S", "T", "U", "V", "W", "X", "Y", "Z"}

is_ascii_digit(c) == c \in {"0", "1", "2", "3", "4", "5", "6", "7", "8", "9"}

\* a mutant of is_valid_env_var_name: the first character is tested like the others
is_valid_env_var_name_FirstAsRest(n) ==
    IF n = <<>> THEN FALSE
    ELSE IF \E i \in 1..Len(n) :
                ~is_ascii_uppercase(n[i]) /\ ~is_ascii_digit(n[i]) /\ n[i] # "_"
         THEN FALSE
         ELSE \E i \in 1..Len(n) : is_ascii_uppercase(n[i])

\* chars.next() must be an uppercase letter; the remaining characters uppercase
\* letters, digits or underscores; and some character an uppercase letter
is_valid_env_var_name(n) ==
    IF n = <<>> THEN FALSE
    ELSE IF ~is_ascii_uppercase(n[1]) THEN FALSE
    ELSE IF \E i \in 2..Len(n) :
                ~is_ascii_uppercase(n[i]) /\ ~is_ascii_digit(n[i]) /\ n[i] # "_"
         THEN FALSE
         ELSE \E i \in 1..Len(n) : is_ascii_uppercase(n[i])

NameChars == {"F", "O", "f", "2", "_", "-"}

AllNames == UNION { [1..n -> NameChars] : n \in 0..MaxNameLen }

ExampleNames ==
    { <<"F", "O", "O", "_", "B", "A", "R", "2">>,   \* FOO_BAR2
      <<"F", "O", "O", "-", "B", "A", "R">>,        \* FOO-BAR
      <<"2", "F", "O", "O">>,                       \* 2FOO
      <<"f", "o", "o">> }                           \* foo

InitValid ==
    /\ PipelineIdle
    /\ ParseIdle
    /\ ManagerIdle
    /\ name \in AllNames \cup ExampleNames
    /\ valid = "unchecked"

Validate ==
    /\ valid = "unchecked"
    /\ valid' = IF is_valid_env_var_name(name) THEN "accepted" ELSE "rejected"
    /\ UNCHANGED <<name, pc, fileState, rawLines, keyring, lines, idx, env_map,
                   stderr, getCalls, resolveResult, env_vars, child, exitStatus,
                   line, parsed, managerVars>>

NextValid == Validate

SpecValid == InitValid /\ [][NextValid]_vars

UpperLetters ==
    {"A", "B", "C", "D", "E", "F", "G", "H", "I", "J", "K", "L", "M",
     "N", "O", "P", "Q", "R", "S", "T", "U", "V", "W", "X", "Y", "Z"}

Digits == {"0", "1", "2", "3", "4", "5", "6", "7", "8", "9"}

\* the naming rule: an uppercase letter, then uppercase letters, digits, underscores
FollowsNamingRule(n) ==
    /\ Len(n) >= 1
    /\ n[1] \in UpperLetters
    /\ \A i \in 2..Len(n) : n[i] \in UpperLetters \cup Digits \cup {"_"}

\* C14: is_valid_env_var_name accepts a name exactly when it is non-empty,
\* starts with an uppercase ASCII letter and continues with uppercase ASCII
\* letters, ASCII digits or underscores; it accepts FOO_BAR2 and rejects foo,
\* 2FOO, the empty name and FOO-BAR.
C14_ValidNameRule ==
    valid # "unchecked" =>
        /\ valid = "accepted" <=> FollowsNamingRule(name)
        /\ name = <<"F", "O", "O", "_", "B", "A", "R", "2">> => valid = "accepted"
        /\ name \in { <<"f", "o", "o">>, <<"2", "F", "O", "O">>,
                      <<>>, <<"F", "O", "O", "-", "B", "A", "R">> } => valid = "rejected"

\* FOO_BAR2 has been accepted
C14_Witness ==
    /\ name = <<"F", "O", "O", "_", "B", "A", "R", "2">>
    /\ valid = "accepted"

-----------------------------------------------------------------------------
(* lib.rs: the secret manager functions.  The keyring holds one Ok(value)  *)
(* per label present; `backend` says whether the platform store answers.   *)

MaxEvents == 6

Backends == {"answers", "fails"}

Remove(m, k) == [x \in DOMAIN m \ {k} |-> m[x]]

\* Entry::new(TAG, key)?.set_password(value)?
add_secret_to_keyring(key, value, backend) ==
    IF backend = "fails"
    THEN [result |-> "PlatformFailure", keyring |-> keyring]
    ELSE [result |-> "Ok",
          keyring |-> [x \in DOMAIN keyring \cup {key} |->
                          IF x = key THEN Ok(value) ELSE keyring[x]]]

\* a mutant of delete_secret_from_keyring: deleting an absent label succeeds
delete_secret_from_keyring_Idempotent(key, backend) ==
    IF backend = "fails"
    THEN [result |-> "PlatformFailure", keyring |-> keyring]
    ELSE [result |-> "Ok", keyring |-> Remove(keyring, key)]

\* Entry::new(TAG, key)?.delete_credential()?: NoEntry when there is no such entry
delete_secret_from_keyring(key, backend) ==
    IF backend = "fails"
    THEN [result |-> "PlatformFailure", keyring |-> keyring]
    ELSE IF key \notin DOMAIN keyring
         THEN [result |-> "NoEntry", keyring |-> keyring]
         ELSE [result |-> "Ok", keyring |-> Remove(keyring, key)]

\* the orders in which Entry::search can return the entries of the namespace
SearchOrders(stored) ==
    { o \in [1..Cardinality(DOMAIN stored) -> DOMAIN stored] :
        \A i, j \in DOMAIN o : i # j => o[i] # o[j] }

\* Entry::search(..)?, then the username (or account) attribute of every item,
\* in the order of the search
list_secret_labels(order, backend) ==
    IF backend = "fails"
    THEN [result |-> "PlatformFailure"]
    ELSE [result |-> "Ok", labels |-> order]

\* the order of characters by literal value, for the characters of labels
AsciiOrder == <<"-", "2", "A", "F", "O", "S", "_", "a", "f">>

CharRank(c) == CHOOSE i \in 1..Len(AsciiOrder) : AsciiOrder[i] = c

RECURSIVE StrLess(_, _)
StrLess(a, b) ==
    IF b = <<>> THEN FALSE
    ELSE IF a = <<>> THEN TRUE
    ELSE IF Head(a) = Head(b) THEN StrLess(Tail(a), Tail(b))
    ELSE CharRank(Head(a)) < CharRank(Head(b))

Ascending(seq) == \A i, j \in 1..Len(seq) : i < j => StrLess(seq[i], seq[j])

\* crate::list_secrets, which ui.rs calls: the labels of the namespace, sorted
list_secrets(stored, backend) ==
    IF backend = "fails"
    THEN [result |-> "PlatformFailure"]
    ELSE [result |-> "Ok", labels |-> CHOOSE o \in SearchOrders(stored) : Ascending(o)]

-----------------------------------------------------------------------------
(* SpecManager: `envgg --list` and the secrets viewer of `envgg --open`    *)

\* what the user can type as key and as value in the add dialog
KeyInputs == { <<"A">>, <<"a">>, <<>> }

ValueInputs == { <<"x">>, <<>> }

StoredLabels == { <<"A">>, <<"S">> }

InitManager ==
    /\ pc = "idle"
    /\ fileState = "ok"
    /\ rawLines = <<>>
    /\ keyring \in { [l \in present |-> Ok(<<"y">>)] : present \in SUBSET StoredLabels }
    /\ lines = <<>>
    /\ idx = 1
    /\ env_map = EmptyMap
    /\ stderr = <<>>
    /\ getCalls = <<>>
    /\ resolveResult = "pending"
    /\ env_vars = <<>>
    /\ child = NoChild
    /\ exitStatus = Running
    /\ ParseIdle
    /\ ValidIdle
    /\ ManagerIdle

pipelineVars == <<pc, fileState, rawLines, lines, idx, env_map, getCalls,
                  resolveResult, env_vars, child, exitStatus, line, parsed, validVars>>

MoreEvents == Len(events) < MaxEvents

\* main.rs: cli.list prints the labels in the order list_secret_labels returns
CliList ==
    /\ viewer = "closed"
    /\ \E order \in SearchOrders(keyring) :
         LET listed == list_secret_labels(order, "answers") IN
         /\ listed.result = "Ok"
         /\ stdout' = listed.labels
         /\ stderr' = <<>>
    /\ viewer' = "exited"
    /\ UNCHANGED <<pipelineVars, keyring, displayed, dialog, tasks,
                   notifications, storeCalls, events>>

\* main.rs: list_secret_labels returns Err and main bails
CliListFails ==
    /\ viewer = "closed"
    /\ \E order \in SearchOrders(keyring) :
         LET listed == list_secret_labels(order, "fails") IN
         /\ listed.result # "Ok"
         /\ stdout' = <<>>
         /\ stderr' = <<[kind |-> "Error", what |-> listed.result]>>
    /\ viewer' = "exited"
    /\ UNCHANGED <<pipelineVars, keyring, displayed, dialog, tasks,
                   notifications, storeCalls, events>>

\* ui.rs: open_secrets_viewer loads the labels and shows the window
OpenViewer ==
    /\ viewer = "closed"
    /\ \E backend \in Backends :
         LET loaded == list_secrets(keyring, backend) IN
         IF loaded.result = "Ok"
         THEN viewer' = "open" /\ displayed' = loaded.labels
         ELSE viewer' = "panicked" /\ displayed' = displayed
    /\ UNCHANGED <<pipelineVars, keyring, stderr, dialog, tasks, notifications,
                   storeCalls, events, stdout>>

CanClick == viewer = "open" /\ MoreEvents

InList(label) == \E i \in 1..Len(displayed) : displayed[i] = label

\* a mutant of PressDelete: the delete task is spawned without a confirmation
PressDeleteNoConfirmation(label) ==
    /\ CanClick
    /\ dialog = NoDialog
    /\ InList(label)
    /\ tasks' = Append(tasks, [op |-> "delete", key |-> label])
    /\ events' = Append(events, [e |-> "press_delete", name |-> label])
    /\ UNCHANGED <<pipelineVars, keyring, stderr, viewer, displayed, dialog,
                   notifications, storeCalls, stdout>>

\* the delete button of a listed secret: show_delete_confirmation opens the dialog
PressDelete(label) ==
    /\ CanClick
    /\ dialog = NoDialog
    /\ InList(label)
    /\ dialog' = [kind |-> "delete", name |-> label]
    /\ events' = Append(events, [e |-> "press_delete", name |-> label])
    /\ UNCHANGED <<pipelineVars, keyring, stderr, viewer, displayed, tasks,
                   notifications, storeCalls, stdout>>

\* on_ok of the confirmation: handle_delete_secret spawns the task, the dialog closes
ConfirmDelete ==
    /\ CanClick
    /\ dialog.kind = "delete"
    /\ tasks' = Append(tasks, [op |-> "delete", key |-> dialog.name])
    /\ dialog' = NoDialog
    /\ events' = Append(events, [e |-> "confirm_delete", name |-> dialog.name])
    /\ UNCHANGED <<pipelineVars, keyring, stderr, viewer, displayed, notifications,
                   storeCalls, stdout>>

\* on_cancel of the confirmation, or a click on its overlay: the dialog closes
CancelDelete ==
    /\ CanClick
    /\ dialog.kind = "delete"
    /\ dialog' = NoDialog
    /\ events' = Append(events, [e |-> "cancel_delete", name |-> dialog.name])
    /\ UNCHANGED <<pipelineVars, keyring, stderr, viewer, displayed, tasks,
                   notifications, storeCalls, stdout>>

\* open_add_dialog
OpenAddDialog ==
    /\ CanClick
    /\ dialog = NoDialog
    /\ dialog' = [kind |-> "add"]
    /\ events' = Append(events, [e |-> "open_add"])
    /\ UNCHANGED <<pipelineVars, keyring, stderr, viewer, displayed, tasks,
                   notifications, storeCalls, stdout>>

\* a mutant of ClickAdd: the key is not validated
ClickAddUnvalidated(key, value) ==
    /\ CanClick
    /\ dialog.kind = "add"
    /\ events' = Append(events, [e |-> "click_add", key |-> key, value |-> value])
    /\ IF value = <<>>
       THEN /\ notifications' = Append(notifications, [kind |-> "empty_value"])
            /\ UNCHANGED <<dialog, tasks>>
       ELSE /\ dialog' = NoDialog
            /\ tasks' = Append(tasks, [op |-> "add", key |-> key, value |-> value])
            /\ UNCHANGED notifications
    /\ UNCHANGED <<pipelineVars, keyring, stderr, viewer, displayed, storeCalls, stdout>>

\* the Add Secret button: the key is validated, the value must not be empty,
\* then the dialog closes and handle_add_secret spawns the task
ClickAdd(key, value) ==
    /\ CanClick
    /\ dialog.kind = "add"
    /\ events' = Append(events, [e |-> "click_add", key |-> key, value |-> value])
    /\ IF ~is_valid_env_var_name(key)
       THEN /\ notifications' = Append(notifications, [kind |-> "invalid_key"])
            /\ UNCHANGED <<dialog, tasks>>
       ELSE IF value = <<>>
       THEN /\ notifications' = Append(notifications, [kind |-> "empty_value"])
            /\ UNCHANGED <<dialog, tasks>>
       ELSE /\ dialog' = NoDialog
            /\ tasks' = Append(tasks, [op |-> "add", key |-> key, value |-> value])
            /\ UNCHANGED notifications
    /\ UNCHANGED <<pipelineVars, keyring, stderr, viewer, displayed, storeCalls, stdout>>

\* the Cancel button of the add dialog
CancelAdd ==
    /\ CanClick
    /\ dialog.kind = "add"
    /\ dialog' = NoDialog
    /\ events' = Append(events, [e |-> "cancel_add"])
    /\ UNCHANGED <<pipelineVars, keyring, stderr, viewer, displayed, tasks,
                   notifications, storeCalls, stdout>>

WithoutTask(i) == [j \in 1..(Len(tasks) - 1) |-> IF j < i THEN tasks[j] ELSE tasks[j + 1]]

\* refresh_secrets_with_notification, with the keyring as the operation left it
Refresh(stored, label, operation, backend) ==
    LET listed == list_secrets(stored, backend) IN
    IF listed.result = "Ok"
    THEN /\ displayed' = listed.labels
         /\ notifications' = Append(notifications,
                                    [kind |-> "success", name |-> label, what |-> operation])
    ELSE /\ displayed' = displayed
         /\ notifications' = Append(notifications,
                                    [kind |-> "error", what |-> "refreshing"])

\* the task of handle_delete_secret runs
RunDeleteTask ==
    \E i \in 1..Len(tasks) :
        /\ tasks[i].op = "delete"
        /\ \E backend \in Backends, listing \in Backends :
             LET done == delete_secret_from_keyring(tasks[i].key, backend) IN
             /\ keyring' = done.keyring
             /\ storeCalls' = Append(storeCalls, [op |-> "delete", key |-> tasks[i].key,
                                                  result |-> done.result])
             /\ IF done.result = "Ok"
                THEN Refresh(done.keyring, tasks[i].key, "deleted", listing)
                ELSE /\ displayed' = displayed
                     /\ notifications' = Append(notifications,
                                                [kind |-> "error", what |-> "deleting"])
        /\ tasks' = WithoutTask(i)
        /\ UNCHANGED <<pipelineVars, stderr, viewer, dialog, events, stdout>>

\* the task of handle_add_secret runs
RunAddTask ==
    \E i \in 1..Len(tasks) :
        /\ tasks[i].op = "add"
        /\ \E backend \in Backends, listing \in Backends :
             LET done == add_secret_to_keyring(tasks[i].key, tasks[i].value, backend) IN
             /\ keyring' = done.keyring
             /\ storeCalls' = Append(storeCalls, [op |-> "add", key |-> tasks[i].key,
                                                  value |-> tasks[i].value,
                                                  result |-> done.result])
             /\ IF done.result = "Ok"
                THEN Refresh(done.keyring, tasks[i].key, "added", listing)
                ELSE /\ displayed' = displayed
                     /\ notifications' = Append(notifications,
                                                [kind |-> "error", what |-> "adding"])
        /\ tasks' = WithoutTask(i)
        /\ UNCHANGED <<pipelineVars, stderr, viewer, dialog, events, stdout>>

NextManager ==
    \/ CliList
    \/ CliListFails
    \/ OpenViewer
    \/ \E label \in StoredLabels : PressDelete(label)
    \/ ConfirmDelete
    \/ CancelDelete
    \/ OpenAddDialog
    \/ \E key \in KeyInputs, value \in ValueInputs : ClickAdd(key, value)
    \/ CancelAdd
    \/ RunDeleteTask
    \/ RunAddTask

SpecManager == InitManager /\ [][NextManager]_vars

-----------------------------------------------------------------------------
(* Claims about the secret manager and the secrets viewer, under SpecManager *)

LastOf(seq) == seq[Len(seq)]

Grew(seq, seq2) == Len(seq2) = Len(seq) + 1

\* C16: what --list prints is in ascending order of the labels, whatever the
\* store holds and in whatever order the store returns its entries.
C16_ListIsSorted == Ascending(stdout)

\* the labels that a listing of the store can return
ListedLabels(stored) ==
    { l \in StoredLabels \cup KeyInputs :
        \E o \in SearchOrders(stored) :
            LET listed == list_secret_labels(o, "answers") IN
            \E i \in 1..Len(listed.labels) : listed.labels[i] = l }

\* C15: whenever a store operation has run: after a successful add of L a
\* listing contains L; after a successful delete of L a listing no longer
\* contains L; and a delete of a label the store does not hold fails (with
\* NoEntry whenever the platform store answers at all) and leaves the store
\* as it was.
C15_RoundTrip ==
    [][ Grew(storeCalls, storeCalls') =>
          LET call == LastOf(storeCalls') IN
          /\ (call.op = "add" /\ call.result = "Ok")
                => /\ call.key \in ListedLabels(keyring')
                   /\ keyring'[call.key] = Ok(call.value)
          /\ (call.op = "delete" /\ call.result = "Ok")
                => /\ call.key \in ListedLabels(keyring)
                   /\ call.key \notin ListedLabels(keyring')
          /\ (call.op = "delete" /\ call.key \notin ListedLabels(keyring))
                => /\ call.result \in {"NoEntry", "PlatformFailure"}
                   /\ keyring' = keyring
          /\ (call.result # "Ok") => keyring' = keyring
      ]_vars

C15_Witness ==
    /\ storeCalls = << [op |-> "add", key |-> <<"A">>, value |-> <<"x">>, result |-> "Ok"],
                       [op |-> "delete", key |-> <<"A">>, result |-> "Ok"],
                       [op |-> "delete", key |-> <<"A">>, result |-> "NoEntry"] >>
    /\ <<"A">> \notin ListedLabels(keyring)

\* C13: a click on Add Secret with a key that violates the naming rule shows
\* the key-format notification, spawns no add task and changes neither the
\* store nor the dialog; so every add that reaches the store, and every
\* label the store gains, follows the naming rule.
C13_ValidationBeforePut ==
    [][ /\ (Grew(events, events') /\ LastOf(events').e = "click_add"
                                  /\ ~FollowsNamingRule(LastOf(events').key))
            => /\ notifications' = Append(notifications, [kind |-> "invalid_key"])
               /\ UNCHANGED <<keyring, tasks, storeCalls, dialog, displayed>>
        /\ \A i \in 1..Len(tasks') :
               tasks'[i].op = "add" => FollowsNamingRule(tasks'[i].key)
        /\ \A i \in 1..Len(storeCalls') :
               storeCalls'[i].op = "add" => FollowsNamingRule(storeCalls'[i].key)
        /\ \A l \in DOMAIN keyring' \ DOMAIN keyring : FollowsNamingRule(l)
      ]_vars

C13_Witness ==
    /\ events = << [e |-> "open_add"],
                   [e |-> "click_add", key |-> <<"a">>, value |-> <<"x">>],
                   [e |-> "click_add", key |-> <<"A">>, value |-> <<"x">>] >>
    /\ notifications = << [kind |-> "invalid_key"],
                          [kind |-> "success", name |-> <<"A">>, what |-> "added"] >>
    /\ storeCalls = << [op |-> "add", key |-> <<"A">>, value |-> <<"x">>, result |-> "Ok"] >>

\* how many elements of seq are about the delete of label
CountOf(seq, what, label) ==
    Cardinality({ i \in 1..Len(seq) :
                    IF what = "confirm_delete"
                    THEN seq[i].e = what /\ seq[i].name = label
                    ELSE seq[i].op = what /\ seq[i].key = label })

====
